---- MODULE Spec2Model ----
(***************************************************************************)
(* A model of train_gpt-2.py: the construction of GPT (module tree, weight *)
(* tying, _init_weights), the checkpoint import GPT.from_pretrained, the   *)
(* in-place parameter updates of the training loop, and the forward pass   *)
(* (GPT.forward, Block, CausalSelfAttention, MLP).                         *)
(*                                                                         *)
(* Parameter names are sequences of their dotted components                *)
(* ("transformer.wte.weight" is <<"transformer","wte","weight">>).  A      *)
(* tensor is a shape and its contiguous row-major data.  Tensor entries    *)
(* are integers: real numbers are kept on a unit grid (fixed point), and   *)
(* the extents (n_embd, vocab_size, block_size) are small.                 *)
(***************************************************************************)
EXTENDS Integers, Sequences, FiniteSets, TLC

\* ---------------------------------------------------------------- bounds
MaxLayer == 2
MaxEmbd == 2
MaxVocab == 2
MaxBlock == 3
MaxSeed == 0
MaxUpdates == 1
DefectReach == 14

\* ------------------------------------------------------- program constants
\* config_args of from_pretrained: the layer count of each model type.
NLayerGpt2 == 12
NLayerGpt2Medium == 24
NLayerGpt2Large == 36
NLayerGpt2Xl == 48

VARIABLES
    config,     \* GPTConfig of the model under construction / in use
    entry,      \* "scratch": GPT(GPTConfig()); "pretrained": GPT.from_pretrained
    pc,         \* position in construction / import
    sd,         \* state_dict: parameter name -> the storage it denotes
    mem,        \* storage -> tensor [shape, data]
    law,        \* storage -> the distribution its entries were last drawn from
    rng,        \* state of the random generator
    visit,      \* index of the next module self.apply visits
    sd_hf,      \* the foreign state_dict: name -> tensor
    sd_keys,    \* filtered local key list
    sd_keys_hf, \* filtered foreign key list
    k_i,        \* index in sd_keys_hf of the next key of the copy loop
    err,        \* the exception raised, if any
    copied,     \* the local names copy_ has written (history)
    mem_pre,    \* mem when from_pretrained took model.state_dict() (history)
    updates,    \* number of in-place updates done
    fpc,        \* position in GPT.forward
    f_idx,      \* idx of the running forward call
    f_targets,  \* targets of the running forward call (<<>> is None)
    f_x,        \* activations, one vector per position
    f_layer,    \* index of the next block
    f_out       \* what forward returned: [logits, loss]

vars == <<config, entry, pc, sd, mem, law, rng, visit, sd_hf, sd_keys,
          sd_keys_hf, k_i, err, copied, mem_pre, updates, fpc, f_idx,
          f_targets, f_x, f_layer, f_out>>

importVars == <<sd_hf, sd_keys, sd_keys_hf, k_i, copied, mem_pre>>
forwardVars == <<fpc, f_idx, f_targets, f_x, f_layer, f_out>>

\* ---------------------------------------------------------------- helpers
RECURSIVE Product(_)
Product(s) == IF s = <<>> THEN 1 ELSE Head(s) * Product(Tail(s))

RECURSIVE SumSeq(_)
SumSeq(s) == IF s = <<>> THEN 0 ELSE Head(s) + SumSeq(Tail(s))

RECURSIVE Concat(_)
Concat(ss) ==
    IF Len(ss) = 0 THEN <<>>
    ELSE IF Len(ss) = 1 THEN ss[1]
    ELSE LET h == Len(ss) \div 2
         IN Concat(SubSeq(ss, 1, h)) \o Concat(SubSeq(ss, h + 1, Len(ss)))

Reverse(s) == [i \in 1..Len(s) |-> s[Len(s) + 1 - i]]

Range(s) == {s[i] : i \in 1..Len(s)}

IndexOf(s, x) == IF x \in Range(s) THEN CHOOSE i \in 1..Len(s) : s[i] = x ELSE 0

\* ---------------------------------------------------------------- tensors
Numel(shape) == Product(shape)

Tensor(shape, data) == [shape |-> shape, data |-> data]

Fill(shape, v) == Tensor(shape, [k \in 1..Numel(shape) |-> v])

\* A draw of Numel(shape) entries from the generator in state r.
Draw(shape, r) == Tensor(shape, [k \in 1..Numel(shape) |-> ((r + k * k) % 5) - 2])

\* Tensor.t(): a tensor of fewer than two dimensions is returned as it is,
\* a matrix is transposed.
TransposeAsReshape(t) == Tensor(Reverse(t.shape), t.data)
Transpose(t) ==
    IF Len(t.shape) < 2 THEN t
    ELSE LET R == t.shape[1]
             C == t.shape[2]
         IN Tensor(<<C, R>>,
                   [k \in 1..(R * C) |->
                       t.data[(((k - 1) % R) * C) + ((k - 1) \div R) + 1]])

\* ------------------------------------------------------------------ names
WTE == <<"transformer", "wte", "weight">>
LMHEAD == <<"lm_head", "weight">>

\* str.endswith on dotted names: suffix is a sequence of components; with
\* dot, the suffix starts with "." and so some component precedes it.
EndsWith(k, suffix, dot) ==
    /\ Len(k) >= Len(suffix) + (IF dot THEN 1 ELSE 0)
    /\ SubSeq(k, Len(k) - Len(suffix) + 1, Len(k)) = suffix

\* ------------------------------------------------------------ module tree
Module(path, kind, dims, scale) ==
    [path |-> path, kind |-> kind, dims |-> dims, scale_init |-> scale]

\* CausalSelfAttention.__init__: c_attn, c_proj (tagged NANOGPT_SCALE_INIT).
AttnModules(p, c) ==
    << Module(p \o <<"c_attn">>, "Linear", <<3 * c.n_embd, c.n_embd>>, FALSE),
       Module(p \o <<"c_proj">>, "Linear", <<c.n_embd, c.n_embd>>, TRUE),
       Module(p, "CausalSelfAttention", <<>>, FALSE) >>

\* MLP.__init__: c_fc, gelu, c_proj (tagged NANOGPT_SCALE_INIT).
MLPModules(p, c) ==
    << Module(p \o <<"c_fc">>, "Linear", <<4 * c.n_embd, c.n_embd>>, FALSE),
       Module(p \o <<"gelu">>, "GELU", <<>>, FALSE),
       Module(p \o <<"c_proj">>, "Linear", <<c.n_embd, 4 * c.n_embd>>, TRUE),
       Module(p, "MLP", <<>>, FALSE) >>

\* Block.__init__: ln_1, attn, ln_2, mlp; in the order self.apply visits
\* them (children first, the module itself last).
BlockModules(p, c) ==
    << Module(p \o <<"ln_1">>, "LayerNorm", <<c.n_embd>>, FALSE) >>
    \o AttnModules(p \o <<"attn">>, c)
    \o << Module(p \o <<"ln_2">>, "LayerNorm", <<c.n_embd>>, FALSE) >>
    \o MLPModules(p \o <<"mlp">>, c)
    \o << Module(p, "Block", <<>>, FALSE) >>

BlockPath(i) == <<"transformer", "h", ToString(i)>>

\* GPT.__init__: the module tree in the order self.apply visits it.
Modules(c) ==
    << Module(<<"transformer", "wte">>, "Embedding", <<c.vocab_size, c.n_embd>>, FALSE),
       Module(<<"transformer", "wpe">>, "Embedding", <<c.block_size, c.n_embd>>, FALSE) >>
    \o Concat([i \in 1..c.n_layer |-> BlockModules(BlockPath(i - 1), c)])
    \o << Module(<<"transformer", "h">>, "ModuleList", <<>>, FALSE),
          Module(<<"transformer", "ln_f">>, "LayerNorm", <<c.n_embd>>, FALSE),
          Module(<<"transformer">>, "ModuleDict", <<>>, FALSE),
          Module(<<"lm_head">>, "Linear", <<c.vocab_size, c.n_embd>>, FALSE),
          Module(<<>>, "GPT", <<>>, FALSE) >>

Param(m, role, shape) ==
    [name |-> m.path \o <<role>>, shape |-> shape, role |-> role, kind |-> m.kind]

\* The parameters a module registers (nn.Linear has a bias by default).
ModuleParams(m) ==
    CASE m.kind = "Linear" ->
            << Param(m, "weight", m.dims), Param(m, "bias", <<m.dims[1]>>) >>
      [] m.kind = "Embedding" ->
            << Param(m, "weight", m.dims) >>
      [] m.kind = "LayerNorm" ->
            << Param(m, "weight", m.dims), Param(m, "bias", m.dims) >>
      [] OTHER -> <<>>

\* model.state_dict(): every parameter in registration order.  Registration
\* order differs from apply order only in where a container stands, and a
\* container registers no parameter of its own.
ParamList(c) ==
    LET ms == Modules(c) IN Concat([i \in 1..Len(ms) |-> ModuleParams(ms[i])])

LocalKeys(c) == LET ps == ParamList(c) IN [i \in 1..Len(ps) |-> ps[i].name]

\* self.transformer.wte.weight = self.lm_head.weight: after it the name
\* transformer.wte.weight denotes the storage of lm_head.weight.
UntiedStorage(name) == name
TiedStorage(name) == IF name = WTE THEN LMHEAD ELSE name

Storages(c) == LET keys == LocalKeys(c) IN {TiedStorage(keys[i]) : i \in 1..Len(keys)}

\* ------------------------------------------------------------ init laws
Law(dist, milli, depth) == [dist |-> dist, milli |-> milli, depth |-> depth]
\* Law("normal", m, d): mean 0, standard deviation (m / 1000) * d^(-0.5).

\* What the torch constructors leave in a fresh parameter.
DefaultLaw(kind, role) ==
    CASE kind = "Linear" -> Law("uniform", 0, 0)
      [] kind = "Embedding" -> Law("normal", 1000, 1)
      [] kind = "LayerNorm" /\ role = "weight" -> Law("ones", 0, 0)
      [] OTHER -> Law("zeros", 0, 0)

DefaultTensor(kind, role, shape, r) ==
    CASE kind = "LayerNorm" /\ role = "weight" -> Fill(shape, 1)
      [] kind = "LayerNorm" -> Fill(shape, 0)
      [] OTHER -> Draw(shape, r)

\* ------------------------------------------------------------ construction
\* The configurations: n_embd % n_head == 0 is asserted by
\* CausalSelfAttention.__init__.
Configs ==
    {c \in [block_size : {MaxBlock}, vocab_size : {MaxVocab}, n_layer : 1..MaxLayer,
            n_head : 1..MaxEmbd, n_embd : 1..MaxEmbd] : c.n_embd % c.n_head = 0}

\* The state GPT.__init__ reaches before self.apply(self._init_weights):
\* every parameter as its constructor left it, wte.weight tied to
\* lm_head.weight.
ConstructedMem(c, seed) ==
    LET keys == LocalKeys(c)
        plist == ParamList(c)
    IN [s \in Storages(c) |->
            LET i == IndexOf(keys, s)
            IN DefaultTensor(plist[i].kind, plist[i].role, plist[i].shape, seed + i)]

ConstructedLaw(c) ==
    LET keys == LocalKeys(c)
        plist == ParamList(c)
    IN [s \in Storages(c) |->
            LET i == IndexOf(keys, s) IN DefaultLaw(plist[i].kind, plist[i].role)]

StateDict(c) == [n \in Range(LocalKeys(c)) |-> TiedStorage(n)]

NoError == [kind |-> "none", text |-> "", numbers |-> <<>>, names |-> {}]
NoOutput == [logits |-> <<>>, loss |-> <<>>]

Construct(c, e, seed) ==
    /\ config = c
    /\ entry = e
    /\ pc = "init"
    /\ sd = StateDict(c)
    /\ mem = ConstructedMem(c, seed)
    /\ law = ConstructedLaw(c)
    /\ rng = seed
    /\ visit = 1
    /\ sd_hf = <<>>
    /\ sd_keys = <<>>
    /\ sd_keys_hf = <<>>
    /\ k_i = 0
    /\ err = NoError
    /\ copied = {}
    /\ mem_pre = <<>>
    /\ updates = 0
    /\ fpc = "idle"
    /\ f_idx = <<>>
    /\ f_targets = <<>>
    /\ f_x = <<>>
    /\ f_layer = 0
    /\ f_out = NoOutput

Init ==
    \E c \in Configs, e \in {"scratch", "pretrained"}, seed \in 0..MaxSeed :
        Construct(c, e, seed)

\* config_args[model_type] of from_pretrained: the layer count of the model
\* type, at the bounded extents.
SupportedLayers == {NLayerGpt2, NLayerGpt2Medium, NLayerGpt2Large, NLayerGpt2Xl}

PretrainedConfigs ==
    [block_size : {MaxBlock}, vocab_size : {MaxVocab}, n_layer : SupportedLayers,
     n_head : {MaxEmbd}, n_embd : {MaxEmbd}]

InitPretrained ==
    \E c \in PretrainedConfigs, seed \in 0..MaxSeed : Construct(c, "pretrained", seed)

\* ------------------------------------------------------------ _init_weights
\* std = 0.02, times (2 * n_layer) ** -0.5 for a module tagged
\* NANOGPT_SCALE_INIT: the depth d of Law("normal", 20, d).
InitStdDepthUnscaled(m, c) == 1
InitStdDepth(m, c) == IF m.scale_init THEN 2 * c.n_layer ELSE 1

\* torch.nn.init.normal_(t, mean=0.0, std=...): an in-place draw.
NormalInit(st, s, milli, depth) ==
    [mem |-> [st.mem EXCEPT ![s] = Draw(@.shape, st.rng)],
     law |-> [st.law EXCEPT ![s] = Law("normal", milli, depth)],
     rng |-> (st.rng + Numel(st.mem[s].shape)) % 5]

\* torch.nn.init.zeros_(t)
ZerosInit(st, s) ==
    [mem |-> [st.mem EXCEPT ![s] = Fill(@.shape, 0)],
     law |-> [st.law EXCEPT ![s] = Law("zeros", 0, 0)],
     rng |-> st.rng]

\* GPT._init_weights(module) on the state st = [mem, law, rng]; names is
\* the state_dict through which module.weight and module.bias are reached.
init_weights(st, names, m, c) ==
    IF m.kind = "Linear"
    THEN ZerosInit(NormalInit(st, names[m.path \o <<"weight">>], 20, InitStdDepth(m, c)),
                   names[m.path \o <<"bias">>])
    ELSE IF m.kind = "Embedding"
    THEN NormalInit(st, names[m.path \o <<"weight">>], 20, 1)
    ELSE st

\* One visit of self.apply(self._init_weights).
InitWeights ==
    /\ pc = "init"
    /\ LET m == Modules(config)[visit]
           st == init_weights([mem |-> mem, law |-> law, rng |-> rng], sd, m, config)
       IN /\ mem' = st.mem
          /\ law' = st.law
          /\ rng' = st.rng
    /\ visit' = visit + 1
    /\ pc' = IF visit = Len(Modules(config)) THEN "constructed" ELSE "init"
    /\ UNCHANGED <<config, entry, sd, err, updates>>
    /\ UNCHANGED importVars
    /\ UNCHANGED forwardVars

\* ------------------------------------------------- the foreign checkpoint
\* GPT2LMHeadModel.from_pretrained(model_type).state_dict(): the external
\* GPT-2 layout.  Conv1D stores a weight as (in, out); lm_head.weight is
\* the tensor of transformer.wte.weight and there is no lm_head.bias.
\* With buffers, each attention layer also lists its mask buffers.
Entry(name, shape, code) ==
    [name |-> name, tensor |-> Tensor(shape, [k \in 1..Numel(shape) |-> 100 * code + k])]

HFBlockEntries(i, c, buffers) ==
    LET p == BlockPath(i)
        n == c.n_embd
        base == 2 + 12 * i
    IN << Entry(p \o <<"ln_1", "weight">>, <<n>>, base + 1),
          Entry(p \o <<"ln_1", "bias">>, <<n>>, base + 2) >>
       \o (IF buffers
           THEN << Entry(p \o <<"attn", "bias">>, <<1, 1, c.block_size, c.block_size>>, 0),
                   Entry(p \o <<"attn", "masked_bias">>, <<>>, 0) >>
           ELSE <<>>)
       \o << Entry(p \o <<"attn", "c_attn", "weight">>, <<n, 3 * n>>, base + 3),
             Entry(p \o <<"attn", "c_attn", "bias">>, <<3 * n>>, base + 4),
             Entry(p \o <<"attn", "c_proj", "weight">>, <<n, n>>, base + 5),
             Entry(p \o <<"attn", "c_proj", "bias">>, <<n>>, base + 6),
             Entry(p \o <<"ln_2", "weight">>, <<n>>, base + 7),
             Entry(p \o <<"ln_2", "bias">>, <<n>>, base + 8),
             Entry(p \o <<"mlp", "c_fc", "weight">>, <<n, 4 * n>>, base + 9),
             Entry(p \o <<"mlp", "c_fc", "bias">>, <<4 * n>>, base + 10),
             Entry(p \o <<"mlp", "c_proj", "weight">>, <<4 * n, n>>, base + 11),
             Entry(p \o <<"mlp", "c_proj", "bias">>, <<n>>, base + 12) >>

HFEntries(c, buffers) ==
    << Entry(WTE, <<c.vocab_size, c.n_embd>>, 1),
       Entry(<<"transformer", "wpe", "weight">>, <<c.block_size, c.n_embd>>, 2) >>
    \o Concat([i \in 1..c.n_layer |-> HFBlockEntries(i - 1, c, buffers)])
    \o << Entry(<<"transformer", "ln_f", "weight">>, <<c.n_embd>>, 3 + 12 * c.n_layer),
          Entry(<<"transformer", "ln_f", "bias">>, <<c.n_embd>>, 4 + 12 * c.n_layer),
          Entry(LMHEAD, <<c.vocab_size, c.n_embd>>, 1) >>

\* What follows the external layout in the mapping handed to the import:
\* nothing; an lm_head.bias (this model's own parameter set, exported
\* through the inverse of the transpose convention); a name this model
\* does not have.
Tails == {"none", "lm_head_bias", "extra"}

TailEntries(c, tail) ==
    CASE tail = "lm_head_bias" ->
            << Entry(<<"lm_head", "bias">>, <<c.vocab_size>>, 5 + 12 * c.n_layer) >>
      [] tail = "extra" ->
            << Entry(<<"transformer", "extra", "weight">>, <<c.n_embd>>, 5 + 12 * c.n_layer) >>
      [] OTHER -> <<>>

\* A mapping that departs from the layout at position pos: the entry is
\* missing ("drop"), its last extent is one too large ("grow"), or its
\* shape is reversed ("flip").  The positions are those of the first
\* DefectReach entries and of the entries outside the blocks.
OutsideBlocks(name) == Len(name) < 4

Defects(es) ==
    {[kind |-> "none", pos |-> 0]} \cup
    [kind : {"drop", "grow", "flip"},
     pos : {p \in 1..Len(es) : p <= DefectReach \/ OutsideBlocks(es[p].name)}]

Grow(shape) ==
    IF shape = <<>> THEN shape
    ELSE [j \in 1..Len(shape) |-> IF j = Len(shape) THEN shape[j] + 1 ELSE shape[j]]

Reshaped(e, shape) ==
    [name |-> e.name,
     tensor |-> Tensor(shape, [k \in 1..Numel(shape) |->
                                 e.tensor.data[1] + ((k - 1) % Numel(e.tensor.shape))])]

ApplyDefect(es, d) ==
    CASE d.kind = "drop" ->
            SubSeq(es, 1, d.pos - 1) \o SubSeq(es, d.pos + 1, Len(es))
      [] d.kind = "grow" ->
            [es EXCEPT ![d.pos] = Reshaped(@, Grow(@.tensor.shape))]
      [] d.kind = "flip" ->
            [es EXCEPT ![d.pos] = Reshaped(@, Reverse(@.tensor.shape))]
      [] OTHER -> es

\* The mappings handed to the import: the external layout with or without
\* buffers and with each tail, and this model's own exported parameter set
\* with each defect.
Checkpoints(c) ==
    {HFEntries(c, buffers) \o TailEntries(c, tail) : buffers \in BOOLEAN, tail \in Tails}
    \cup
    LET own == HFEntries(c, FALSE) \o TailEntries(c, "lm_head_bias")
    IN {ApplyDefect(own, d) : d \in Defects(own)}

\* ------------------------------------------------------- from_pretrained
\* k.endswith('.attn.bias') and k.endswith('.attn.masked_bias')
IsAttnBias(k) == EndsWith(k, <<"attn", "bias">>, TRUE)
IsMaskedBias(k) == EndsWith(k, <<"attn", "masked_bias">>, TRUE)
NotAttnBias(k) == ~IsAttnBias(k)
NotMaskedBias(k) == ~IsMaskedBias(k)

\* any(k.endswith(w) for w in transposed)
transposed ==
    { <<"attn", "c_attn", "weight">>, <<"attn", "c_proj", "weight">>,
      <<"mlp", "c_fc", "weight">>, <<"mlp", "c_proj", "weight">> }
IsTransposed(k) == \E w \in transposed : EndsWith(k, w, FALSE)

\* sd = model.state_dict() and its filtered keys; sd_hf and its filtered
\* keys.
LoadCheckpoint ==
    /\ pc = "constructed"
    /\ entry = "pretrained"
    /\ \E es \in Checkpoints(config) :
          LET keys == [i \in 1..Len(es) |-> es[i].name]
          IN /\ sd_hf' = [n \in Range(keys) |-> es[IndexOf(keys, n)].tensor]
             /\ sd_keys_hf' = SelectSeq(SelectSeq(keys, NotMaskedBias), NotAttnBias)
    /\ sd_keys' = SelectSeq(LocalKeys(config), NotAttnBias)
    /\ mem_pre' = mem
    /\ pc' = "loaded"
    /\ UNCHANGED <<config, entry, sd, mem, law, rng, visit, k_i, err, copied, updates>>
    /\ UNCHANGED forwardVars

\* assert len(sd_keys_hf) == len(sd_keys), f"mismatched keys: ..."
KeyCountsAtMost(keys_hf, keys) == Len(keys_hf) <= Len(keys)
KeyCountsMatch(keys_hf, keys) == Len(keys_hf) = Len(keys)

CountCheck ==
    /\ pc = "loaded"
    /\ IF KeyCountsMatch(sd_keys_hf, sd_keys)
       THEN /\ pc' = "copying"
            /\ k_i' = 1
            /\ err' = err
       ELSE /\ pc' = "failed"
            /\ k_i' = k_i
            /\ err' = [kind |-> "AssertionError", text |-> "mismatched keys",
                       numbers |-> <<Len(sd_keys_hf), Len(sd_keys)>>, names |-> {}]
    /\ UNCHANGED <<config, entry, sd, mem, law, rng, visit, updates>>
    /\ UNCHANGED <<sd_hf, sd_keys, sd_keys_hf, copied, mem_pre>>
    /\ UNCHANGED forwardVars

\* The source tensor of the copy and the shape the assertion compares with
\* the local shape.
CopySource(k, t) == IF IsTransposed(k) THEN Transpose(t) ELSE t
CheckedShape(k, t) == IF IsTransposed(k) THEN Reverse(t.shape) ELSE t.shape

\* The assertions `sd_hf[k].shape[::-1] == sd[k].shape` and
\* `sd_hf[k].shape == sd[k].shape`: neither carries a message.
ShapeCheckPasses(k) == CheckedShape(k, sd_hf[k]) = mem[sd[k]].shape

\* One iteration of `for k in sd_keys_hf` that copies.
CopyStep ==
    /\ pc = "copying"
    /\ k_i <= Len(sd_keys_hf)
    /\ LET k == sd_keys_hf[k_i]
       IN /\ k \in DOMAIN sd
          /\ ShapeCheckPasses(k)
          /\ mem' = [mem EXCEPT ![sd[k]] = CopySource(k, sd_hf[k])]
          /\ law' = [law EXCEPT ![sd[k]] = Law("assigned", 0, 0)]
          /\ copied' = copied \cup {k}
    /\ k_i' = k_i + 1
    /\ UNCHANGED <<config, entry, pc, sd, rng, visit, err, updates>>
    /\ UNCHANGED <<sd_hf, sd_keys, sd_keys_hf, mem_pre>>
    /\ UNCHANGED forwardVars

\* The iteration whose shape assertion fails.
CopyShapeFail ==
    /\ pc = "copying"
    /\ k_i <= Len(sd_keys_hf)
    /\ LET k == sd_keys_hf[k_i]
       IN /\ k \in DOMAIN sd
          /\ ~ShapeCheckPasses(k)
    /\ pc' = "failed"
    /\ err' = [kind |-> "AssertionError", text |-> "", numbers |-> <<>>, names |-> {}]
    /\ UNCHANGED <<config, entry, sd, mem, law, rng, visit, updates>>
    /\ UNCHANGED importVars
    /\ UNCHANGED forwardVars

\* The iteration whose key the local state_dict does not have: sd[k]
\* raises KeyError(k).
CopyKeyFail ==
    /\ pc = "copying"
    /\ k_i <= Len(sd_keys_hf)
    /\ sd_keys_hf[k_i] \notin DOMAIN sd
    /\ pc' = "failed"
    /\ err' = [kind |-> "KeyError", text |-> "", numbers |-> <<>>,
               names |-> {sd_keys_hf[k_i]}]
    /\ UNCHANGED <<config, entry, sd, mem, law, rng, visit, updates>>
    /\ UNCHANGED importVars
    /\ UNCHANGED forwardVars

\* return model
ReturnModel ==
    /\ pc = "copying"
    /\ k_i > Len(sd_keys_hf)
    /\ pc' = "imported"
    /\ UNCHANGED <<config, entry, sd, mem, law, rng, visit, err, updates>>
    /\ UNCHANGED importVars
    /\ UNCHANGED forwardVars

\* ------------------------------------------------------- in-place updates
\* optimizer.step(): an in-place update of a parameter of a model that is
\* in use, reached through the name n.
Update ==
    /\ \/ pc = "constructed" /\ entry = "scratch"
       \/ pc = "imported"
    /\ fpc = "idle"
    /\ updates < MaxUpdates
    /\ \E n \in DOMAIN sd :
          /\ mem' = [mem EXCEPT ![sd[n]].data = [k \in DOMAIN @ |-> @[k] + 1]]
          /\ law' = [law EXCEPT ![sd[n]] = Law("assigned", 0, 0)]
    /\ updates' = updates + 1
    /\ UNCHANGED <<config, entry, pc, sd, rng, visit, err>>
    /\ UNCHANGED importVars
    /\ UNCHANGED forwardVars

\* ------------------------------------------------------------ the layers
Max(S) == CHOOSE x \in S : \A y \in S : y <= x
Min2(a, b) == IF a < b THEN a ELSE b
ISqrt(n) == CHOOSE r \in 0..n : r * r <= n /\ n < (r + 1) * (r + 1)
Pow2(n) == IF n = 0 THEN 1 ELSE IF n = 1 THEN 2 ELSE IF n = 2 THEN 4 ELSE 8

\* The vector or table f, computed once (a function is otherwise
\* recomputed at every application).
Eval(f) == IF f = <<>> THEN <<>> ELSE f

Dot(a, b) == SumSeq([i \in 1..Len(a) |-> a[i] * b[i]])
VecAdd(a, b) == Eval([i \in 1..Len(a) |-> a[i] + b[i]])
Row(t, o) == Eval([i \in 1..t.shape[2] |-> t.data[(o - 1) * t.shape[2] + i]])

\* nn.Linear: x W^T + b, W of shape (out, in).
LinearApply(path, v) ==
    LET w == mem[sd[path \o <<"weight">>]]
        b == mem[sd[path \o <<"bias">>]]
    IN Eval([o \in 1..w.shape[1] |-> Dot(Row(w, o), v) + b.data[o]])

\* nn.Embedding: row i (counted from 0) of the table.
EmbeddingApply(path, i) == Row(mem[sd[path \o <<"weight">>]], i + 1)

\* nn.LayerNorm over the feature axis, rounded to the unit grid: a vector
\* of zero variance is normalised to zero.
LayerNormApply(path, v) ==
    LET w == mem[sd[path \o <<"weight">>]]
        b == mem[sd[path \o <<"bias">>]]
        n == Len(v)
        mean == SumSeq(v) \div n
        var == SumSeq([i \in 1..n |-> (v[i] - mean) * (v[i] - mean)]) \div n
        std == ISqrt(var)
    IN Eval([i \in 1..n |->
           w.data[i] * (IF var = 0 THEN 0 ELSE (v[i] - mean) \div std) + b.data[i]])

\* nn.GELU(approximate="tanh") rounded to the unit grid.
GELU(x) == IF x > 0 THEN x ELSE 0

\* F.scaled_dot_product_attention(q, k, v, is_causal=causal) followed by
\* y.transpose(1, 2).contiguous().view(B, T, C): feature j of position t
\* belongs to head (j - 1) \div hs (the view and transpose of q, k, v);
\* its scores are q . k / sqrt(hs), the softmax weights are powers of two
\* of the score's distance to the row maximum, and the result is the
\* weighted mean of the values.
Attention(q, k, v, n_head, causal) ==
    LET T == Len(q)
        C == Len(q[1])
        hs == C \div n_head
        heads == 0..(n_head - 1)
        seen == [t \in 1..T |-> IF causal THEN 1..t ELSE 1..T]
        score == Eval([h \in heads |-> [t \in 1..T |-> [s \in 1..T |->
                    SumSeq([j \in 1..C |->
                              IF (j - 1) \div hs = h THEN q[t][j] * k[s][j] ELSE 0])
                    \div ISqrt(hs)]]])
        top == Eval([h \in heads |-> [t \in 1..T |->
                    Max({score[h][t][s] : s \in seen[t]})]])
        weight == Eval([h \in heads |-> [t \in 1..T |-> [s \in 1..T |->
                    IF s \in seen[t]
                    THEN Pow2(3 - Min2(3, top[h][t] - score[h][t][s]))
                    ELSE 0]]])
    IN Eval([t \in 1..T |->
          [j \in 1..C |->
              LET h == (j - 1) \div hs
              IN SumSeq([s \in 1..T |-> weight[h][t][s] * v[s][j]])
                 \div SumSeq(weight[h][t])]])

\* The y of CausalSelfAttention.forward before its last assignment.
AttentionResult(p, x, n_head, causal) ==
    LET C == Len(x[1])
        qkv == Eval([t \in 1..Len(x) |-> LinearApply(p \o <<"c_attn">>, x[t])])
        q == Eval([t \in 1..Len(x) |-> SubSeq(qkv[t], 1, C)])
        k == Eval([t \in 1..Len(x) |-> SubSeq(qkv[t], C + 1, 2 * C)])
        v == Eval([t \in 1..Len(x) |-> SubSeq(qkv[t], 2 * C + 1, 3 * C)])
    IN Attention(q, k, v, n_head, causal)

\* CausalSelfAttention.forward with the mask left out and the attention
\* result projected.
CausalSelfAttentionForwardUnmasked(p, x, n_head) ==
    LET y == AttentionResult(p, x, n_head, FALSE)
    IN Eval([t \in 1..Len(x) |-> LinearApply(p \o <<"c_proj">>, y[t])])

\* CausalSelfAttention.forward: y is computed from q, k, v, and then
\* `y = self.c_proj(x)` replaces it by the projection of the input.
CausalSelfAttentionForward(p, x, n_head) ==
    LET y == AttentionResult(p, x, n_head, TRUE)
    IN Eval([t \in 1..Len(x) |-> LinearApply(p \o <<"c_proj">>, x[t])])

\* MLP.forward
MLPForward(p, x) ==
    Eval([t \in 1..Len(x) |->
        LET hidden == LinearApply(p \o <<"c_fc">>, x[t])
        IN LinearApply(p \o <<"c_proj">>,
                       Eval([i \in 1..Len(hidden) |-> GELU(hidden[i])]))])

\* Block.forward
BlockForward(i, x) ==
    LET p == BlockPath(i)
        T == Len(x)
        n1 == Eval([t \in 1..T |-> LayerNormApply(p \o <<"ln_1">>, x[t])])
        a == CausalSelfAttentionForward(p \o <<"attn">>, n1, config.n_head)
        x1 == Eval([t \in 1..T |-> VecAdd(x[t], a[t])])
        n2 == Eval([t \in 1..T |-> LayerNormApply(p \o <<"ln_2">>, x1[t])])
        m == MLPForward(p \o <<"mlp">>, n2)
    IN Eval([t \in 1..T |-> VecAdd(x1[t], m[t])])

\* ------------------------------------------------------------ GPT.forward
\* assert T < self.config.block_size
LengthCheckInclusive(T, block_size) == T <= block_size
LengthCheck(T, block_size) == T < block_size

\* pos_embd + tok_embd
Embed(idx) ==
    Eval([t \in 1..Len(idx) |->
        VecAdd(EmbeddingApply(<<"transformer", "wpe">>, t - 1),
               EmbeddingApply(<<"transformer", "wte">>, idx[t]))])

\* ln_f, then lm_head
Logits(x) ==
    Eval([t \in 1..Len(x) |->
        LinearApply(<<"lm_head">>, LayerNormApply(<<"transformer", "ln_f">>, x[t]))])

\* F.cross_entropy: the mean over the positions of logsumexp(logits) -
\* logits[target], the logsumexp rounded to its leading term.  <<>> is None.
Loss(logits, targets) ==
    IF targets = <<>> THEN <<>>
    ELSE << SumSeq([t \in 1..Len(logits) |->
                      Max(Range(logits[t])) - logits[t][targets[t] + 1]])
            \div Len(logits) >>

RECURSIVE Blocks(_, _)
Blocks(i, x) == IF i >= config.n_layer THEN x ELSE Blocks(i + 1, BlockForward(i, x))

\* GPT.forward on an input the length check accepts.
GPTForward(idx, targets) ==
    LET logits == Logits(Blocks(0, Embed(idx)))
    IN [logits |-> logits, loss |-> Loss(logits, targets)]

\* The inputs: a row of 1..block_size+1 token ids; targets are None or, as
\* DataLoaderLite.next_batch cuts them, the row shifted by one token.
Tokens == 0..(MaxVocab - 1)
Inputs == UNION {[1..T -> Tokens] : T \in 1..(MaxBlock + 1)}
TargetsFor(idx) == {<<>>} \cup {Tail(idx) \o <<y>> : y \in Tokens}

InUse ==
    \/ pc = "constructed" /\ entry = "scratch"
    \/ pc = "imported"

\* B, T = idx.size() and the assert.
ForwardEntry ==
    /\ InUse
    /\ fpc = "idle"
    /\ \E idx \in Inputs :
        \E targets \in TargetsFor(idx) :
          /\ f_idx' = idx
          /\ f_targets' = targets
          /\ IF LengthCheck(Len(idx), config.block_size)
             THEN /\ fpc' = "entered"
                  /\ err' = NoError
             ELSE /\ fpc' = "failed"
                  /\ err' = [kind |-> "AssertionError",
                             text |-> "Cannot forward sequence of length {T}, block size is only {block_size}",
                             numbers |-> <<Len(idx), config.block_size>>,
                             names |-> {}]
    /\ f_x' = <<>>
    /\ f_layer' = 0
    /\ f_out' = NoOutput
    /\ UNCHANGED <<config, entry, pc, sd, mem, law, rng, visit, updates>>
    /\ UNCHANGED importVars

\* The position and token embeddings and their sum.
ForwardEmbed ==
    /\ fpc = "entered"
    /\ f_x' = Embed(f_idx)
    /\ fpc' = "blocks"
    /\ UNCHANGED <<config, entry, pc, sd, mem, law, rng, visit, err, updates>>
    /\ UNCHANGED importVars
    /\ UNCHANGED <<f_idx, f_targets, f_layer, f_out>>

\* One iteration of `for block in self.transformer.h`.
ForwardBlock ==
    /\ fpc = "blocks"
    /\ f_layer < config.n_layer
    /\ f_x' = BlockForward(f_layer, f_x)
    /\ f_layer' = f_layer + 1
    /\ UNCHANGED <<config, entry, pc, sd, mem, law, rng, visit, err, updates>>
    /\ UNCHANGED importVars
    /\ UNCHANGED <<fpc, f_idx, f_targets, f_out>>

\* ln_f, lm_head, the loss and the return.
ForwardHead ==
    /\ fpc = "blocks"
    /\ f_layer = config.n_layer
    /\ LET logits == Logits(f_x)
       IN f_out' = [logits |-> logits, loss |-> Loss(logits, f_targets)]
    /\ fpc' = "returned"
    /\ UNCHANGED <<config, entry, pc, sd, mem, law, rng, visit, err, updates>>
    /\ UNCHANGED importVars
    /\ UNCHANGED <<f_idx, f_targets, f_x, f_layer>>

\* The caller has taken what forward returned or raised; the model is idle
\* again.
ForwardDone ==
    /\ fpc \in {"returned", "failed"}
    /\ fpc' = "idle"
    /\ f_idx' = <<>>
    /\ f_targets' = <<>>
    /\ f_x' = <<>>
    /\ f_layer' = 0
    /\ f_out' = NoOutput
    /\ err' = NoError
    /\ UNCHANGED <<config, entry, pc, sd, mem, law, rng, visit, updates>>
    /\ UNCHANGED importVars

Next ==
    \/ InitWeights
    \/ LoadCheckpoint
    \/ CountCheck
    \/ CopyStep
    \/ CopyShapeFail
    \/ CopyKeyFail
    \/ ReturnModel
    \/ Update

Spec == Init /\ [][Next]_vars

NextPretrained ==
    \/ InitWeights
    \/ LoadCheckpoint
    \/ CountCheck
    \/ CopyStep
    \/ CopyShapeFail
    \/ CopyKeyFail
    \/ ReturnModel

SpecPretrained == InitPretrained /\ [][NextPretrained]_vars

NextForward ==
    \/ InitWeights
    \/ ForwardEntry
    \/ ForwardEmbed
    \/ ForwardBlock
    \/ ForwardHead
    \/ ForwardDone

SpecForward == Init /\ [][NextForward]_vars

\* ------------------------------------------------------------------ claims

\* Entry (i, j), counted from 1, of a matrix.
At(t, i, j) == t.data[(i - 1) * t.shape[2] + j]

\* The import has failed: the count assertion, a shape assertion or a
\* missing key has ended from_pretrained.
ImportFailed == pc = "failed"
CountMismatchError == err.kind = "AssertionError" /\ err.text = "mismatched keys"

\* C1: the import is all-or-nothing: whenever it fails on the count
\* assertion or on a shape assertion, no local parameter has been
\* overwritten; the parameters are as they were when the import began.
C1_AllOrNothing ==
    (ImportFailed /\ err.kind = "AssertionError") => (copied = {} /\ mem = mem_pre)

\* The foreign names that are no '.attn.masked_bias' or '.attn.bias'
\* entries, and the local names that are no '.attn.bias' entries.
C2_ForeignNames ==
    {n \in DOMAIN sd_hf :
        ~(Len(n) >= 3 /\ n[Len(n) - 1] = "attn" /\ n[Len(n)] \in {"bias", "masked_bias"})}
C2_LocalNames ==
    {n \in DOMAIN sd : ~(Len(n) >= 3 /\ n[Len(n) - 1] = "attn" /\ n[Len(n)] = "bias")}

\* C2: once the counts have been compared, if the number of filtered
\* foreign names differs from the number of filtered local names the
\* import has failed with the count-mismatch error and nothing has been
\* copied; the copy loop is entered only with equal counts.
C2_CountMismatchFailsFirst ==
    pc \in {"copying", "imported", "failed"} =>
        IF Cardinality(C2_ForeignNames) # Cardinality(C2_LocalNames)
        THEN /\ pc = "failed"
             /\ CountMismatchError
             /\ err.numbers = <<Cardinality(C2_ForeignNames), Cardinality(C2_LocalNames)>>
             /\ copied = {}
             /\ mem = mem_pre
        ELSE ~CountMismatchError

C2_Witness ==
    /\ pc = "failed"
    /\ CountMismatchError
    /\ Cardinality(C2_ForeignNames) = Cardinality(C2_LocalNames) - 1
    /\ copied = {}

\* The four roles whose weights the foreign layout stores transposed.
C3_TransposedRole(k) ==
    /\ Len(k) >= 3
    /\ SubSeq(k, Len(k) - 2, Len(k)) \in
          { <<"attn", "c_attn", "weight">>, <<"attn", "c_proj", "weight">>,
            <<"mlp", "c_fc", "weight">>, <<"mlp", "c_proj", "weight">> }

\* C3: an iteration of the copy loop on key k copies only if the foreign
\* shape is the local shape reversed (k of a transposed role) or the local
\* shape itself (any other k); after the copy the local parameter holds
\* the transpose of the foreign value, local[i][j] = foreign[j][i], or the
\* foreign value itself, and no other parameter has changed.  Otherwise
\* the import fails and nothing is written.
C3_CopyRule ==
    [][ (pc = "copying" /\ k_i <= Len(sd_keys_hf) /\ sd_keys_hf[k_i] \in DOMAIN sd) =>
            LET k == sd_keys_hf[k_i]
                f == sd_hf[k]
                l == mem[sd[k]]
                fits == IF C3_TransposedRole(k)
                        THEN Reverse(f.shape) = l.shape
                        ELSE f.shape = l.shape
            IN IF fits
               THEN /\ pc' = "copying"
                    /\ k_i' = k_i + 1
                    /\ mem'[sd[k]].shape = l.shape
                    /\ IF C3_TransposedRole(k)
                       THEN \A i \in 1..l.shape[1], j \in 1..l.shape[2] :
                               At(mem'[sd[k]], i, j) = At(f, j, i)
                       ELSE mem'[sd[k]] = f
                    /\ \A s \in DOMAIN mem : s # sd[k] => mem'[s] = mem[s]
               ELSE /\ pc' = "failed"
                    /\ mem' = mem ]_vars

C3_Witness ==
    LET k == BlockPath(0) \o <<"attn", "c_attn", "weight">>
    IN /\ pc = "copying"
       /\ config.n_embd >= 2
       /\ k \in copied
       /\ sd_hf[k].shape = <<config.n_embd, 3 * config.n_embd>>
       /\ mem[sd[k]].shape = <<3 * config.n_embd, config.n_embd>>
       /\ \A i \in 1..(3 * config.n_embd), j \in 1..config.n_embd :
             At(mem[sd[k]], i, j) = At(sd_hf[k], j, i)

\* C4: every shape-verification failure raises an error that names the
\* offending parameter.
C4_ShapeErrorNamesParameter ==
    (ImportFailed /\ err.kind = "AssertionError" /\ ~CountMismatchError) =>
        sd_keys_hf[k_i] \in err.names

\* C7: weight tying.  In every state after construction the names
\* transformer.wte.weight and lm_head.weight denote one tensor, so what is
\* read through one name is what was last written through either.
C7_WeightTying ==
    /\ sd[WTE] = sd[LMHEAD]
    /\ mem[sd[WTE]] = mem[sd[LMHEAD]]

C7_Witness ==
    /\ pc = "imported"
    /\ updates > 0
    /\ mem[sd[LMHEAD]] # sd_hf[LMHEAD]
    /\ mem[sd[WTE]] = mem[sd[LMHEAD]]

\* The two residual-scaled layers: the attention and the MLP c_proj.
C9_ResidualScaled(path) ==
    /\ Len(path) >= 2
    /\ SubSeq(path, Len(path) - 1, Len(path)) \in {<<"attn", "c_proj">>, <<"mlp", "c_proj">>}

\* C9: initialization dispatch.  Of the modules _init_weights has visited,
\* a Linear weight is drawn with standard deviation 0.02 * (2 * n_layer)^(-0.5)
\* exactly when the layer is residual-scaled and with 0.02 otherwise, a
\* Linear bias is zero, an Embedding table is drawn with 0.02; and every
\* LayerNorm scale and shift, visited or not, is at its default 1 and 0.
C9_InitDispatch ==
    (pc \in {"init", "constructed"} /\ updates = 0) =>
        \A i \in 1..Len(Modules(config)) :
            LET m == Modules(config)[i]
                w == sd[m.path \o <<"weight">>]
                b == sd[m.path \o <<"bias">>]
            IN CASE m.kind = "Linear" /\ i < visit ->
                       /\ law[w] = [dist |-> "normal", milli |-> 20,
                                    depth |-> IF C9_ResidualScaled(m.path)
                                              THEN 2 * config.n_layer ELSE 1]
                       /\ law[b].dist = "zeros"
                       /\ \A e \in DOMAIN mem[b].data : mem[b].data[e] = 0
                 [] m.kind = "Embedding" /\ i < visit ->
                       law[w] = [dist |-> "normal", milli |-> 20, depth |-> 1]
                 [] m.kind = "LayerNorm" ->
                       /\ law[w].dist = "ones"
                       /\ law[b].dist = "zeros"
                       /\ \A e \in DOMAIN mem[w].data : mem[w].data[e] = 1
                       /\ \A e \in DOMAIN mem[b].data : mem[b].data[e] = 0
                 [] OTHER -> TRUE

C9_Witness ==
    /\ pc = "constructed"
    /\ config.n_layer = 2
    /\ law[sd[BlockPath(1) \o <<"mlp", "c_proj", "weight">>]]
          = [dist |-> "normal", milli |-> 20, depth |-> 4]
    /\ law[sd[BlockPath(1) \o <<"mlp", "c_fc", "weight">>]]
          = [dist |-> "normal", milli |-> 20, depth |-> 1]

\* The foreign mapping follows the external convention of the model's
\* size: after buffer filtering its names are wte, wpe, the twelve entries
\* of every block, ln_f.weight, ln_f.bias and lm_head.weight.
C10_FollowsConvention ==
    LET es == HFEntries(config, FALSE)
    IN /\ Len(sd_keys_hf) = 12 * config.n_layer + 5
       /\ sd_keys_hf = [i \in 1..Len(es) |-> es[i].name]
       /\ \A i \in 1..Len(es) : sd_hf[es[i].name] = es[i].tensor

\* C10: for each supported size, the import of a checkpoint that follows
\* the external convention passes the count check, and on completion
\* every local parameter name has been the target of a copy.
C10_ConventionImports ==
    (pc \in {"copying", "imported", "failed"} /\ C10_FollowsConvention) =>
        /\ ~CountMismatchError
        /\ pc = "imported" => copied = DOMAIN sd


CommonPrefix(a, b) ==
    IF \A i \in 1..Len(a) : a[i] = b[i] THEN Len(a)
    ELSE (CHOOSE i \in 1..Len(a) : a[i] # b[i] /\ \A j \in 1..(i - 1) : a[j] = b[j]) - 1

\* C6: causality.  When forward has returned the logits of idx, every
\* input of the same length that agrees with idx on positions 0..t and
\* differs only after t has, under the same parameters, the same logits at
\* positions 0..t.
C6_Causality ==
    fpc = "returned" =>
        \A idx2 \in [1..Len(f_idx) -> Tokens] :
            CommonPrefix(f_idx, idx2) >= 1 =>
                LET logits2 == GPTForward(idx2, <<>>).logits
                IN \A u \in 1..CommonPrefix(f_idx, idx2) : logits2[u] = f_out.logits[u]

C6_Witness ==
    /\ fpc = "returned"
    /\ Len(f_idx) >= 2
    /\ \E idx2 \in [1..Len(f_idx) -> Tokens] :
          /\ CommonPrefix(f_idx, idx2) = 1
          /\ GPTForward(idx2, <<>>).logits # f_out.logits
          /\ GPTForward(idx2, <<>>).logits[1] = f_out.logits[1]

\* C8: CausalSelfAttention.forward returns c_proj of the attention result:
\* for the input x of the attention layer of the block about to run, the
\* value returned is c_proj applied to the causally weighted combination
\* of the value vectors.
C8_ProjectsAttentionResult ==
    (fpc = "blocks" /\ f_layer < config.n_layer) =>
        LET p == BlockPath(f_layer) \o <<"attn">>
            x == [t \in 1..Len(f_x) |->
                     LayerNormApply(BlockPath(f_layer) \o <<"ln_1">>, f_x[t])]
            y == AttentionResult(p, x, config.n_head, TRUE)
        IN CausalSelfAttentionForward(p, x, config.n_head)
             = [t \in 1..Len(x) |-> LinearApply(p \o <<"c_proj">>, y[t])]

====
